---- MODULE Spec2Model ----
(***************************************************************************)
(* dark-multi: the instance registry (branch.py, commands.py), the port    *)
(* arithmetic (branch.py, devcontainer.py) and the hostname-routed proxy   *)
(* (proxy.py), as a state machine.                                         *)
(*                                                                         *)
(* Strings are sequences of tokens.  A token is a separator ("." ":" "=")  *)
(* a decimal digit, or an atom standing for a run of characters that holds *)
(* no separator ("main", "dlio", ...).  str.split, str(int), int(str) and  *)
(* list slicing are computed on these sequences the way Python does.       *)
(***************************************************************************)
EXTENDS Integers, Sequences, FiniteSets, TLC

VARIABLES
    clone,            \* names n such that DARK_ROOT/n is a directory holding .git
    override_dirs,    \* names n such that OVERRIDES_DIR/n is a directory
    metadata_file,    \* n -> the lines of OVERRIDES_DIR/n/metadata, where that file exists
    override_config,  \* n -> forwardPorts of OVERRIDES_DIR/n/devcontainer.json, where it exists
    running,          \* names n whose container dark-n is listed by `docker ps`
    cmd,              \* the management command in progress or last completed
    pid_file,         \* content of PROXY_PID_FILE as a number; 0 when the file does not exist
    proxy_procs,      \* pids of the live proxy server processes
    branch_ports,     \* DarkProxyHandler.branch_ports of the serving process
    req,              \* the HTTP request the server is handling or handled last, and its answer
    backlog,          \* the connections waiting in the listen queue of the server socket
    docker,           \* how the container runtime answers `docker ps`
    invocations       \* name -> the step and the id of a cmd_new running beside others

vars == <<clone, override_dirs, metadata_file, override_config, running, cmd,
          pid_file, proxy_procs, branch_ports, req, backlog, docker, invocations, invocations>>


(***************************************************************************)
(* Bounds of the model.                                                    *)
(***************************************************************************)
\* largest instance id cmd_new may allocate in Spec
MaxId == 3
\* largest instance id drawn in SpecPorts
MaxPortId == 12
\* most labels of a Host header drawn in SpecRoute
MaxLabels == 5
\* largest pid os.fork() hands out
MaxPid == 2
\* most connections waiting in the listen queue in SpecServe
MaxBacklog == 1

\* branch names the commands are invoked with
Names == {"main", "dev", "fix"}

(***************************************************************************)
(* Python string and list primitives.                                      *)
(***************************************************************************)
DigitChars == <<"0", "1", "2", "3", "4", "5", "6", "7", "8", "9">>

\* str(n) for n >= 0
RECURSIVE str(_)
str(n) ==
    IF n < 10 THEN <<DigitChars[n + 1]>>
    ELSE str(n \div 10) \o <<DigitChars[(n % 10) + 1]>>

\* whether int(s) succeeds (no ValueError); signs and blanks are not drawn
IsInt(s) ==
    /\ Len(s) > 0
    /\ \A i \in 1..Len(s) : \E d \in 1..10 : DigitChars[d] = s[i]

DigitVal(c) == (CHOOSE d \in 1..10 : DigitChars[d] = c) - 1

\* int(s) where IsInt(s)
RECURSIVE int(_)
int(s) ==
    IF Len(s) = 0 THEN 0
    ELSE 10 * int(SubSeq(s, 1, Len(s) - 1)) + DigitVal(s[Len(s)])

\* sep in s
Contains(s, sep) == \E i \in 1..Len(s) : s[i] = sep

\* s.index(x): the first position (1-based here) holding x
IndexOf(s, x) == CHOOSE i \in 1..Len(s) : s[i] = x /\ \A j \in 1..(i - 1) : s[j] # x

\* s.split(sep)
RECURSIVE Split(_, _)
Split(s, sep) ==
    IF ~Contains(s, sep) THEN <<s>>
    ELSE LET i == IndexOf(s, sep)
         IN  <<SubSeq(s, 1, i - 1)>> \o Split(SubSeq(s, i + 1, Len(s)), sep)

\* sep.join(parts)
RECURSIVE Join(_, _)
Join(parts, sep) ==
    IF Len(parts) = 0 THEN <<>>
    ELSE IF Len(parts) = 1 THEN parts[1]
    ELSE parts[1] \o <<sep>> \o Join(Tail(parts), sep)

\* a Python index (0-based, negative counts from the end) clamped as a slice bound
SliceBound(s, k) ==
    LET j == IF k < 0 THEN k + Len(s) ELSE k
    IN  IF j < 0 THEN 0 ELSE IF j > Len(s) THEN Len(s) ELSE j

\* s[:k]
SliceTo(s, k) == SubSeq(s, 1, SliceBound(s, k))

\* s[k:]
SliceFrom(s, k) == SubSeq(s, SliceBound(s, k) + 1, Len(s))

\* s[k] for a 0-based Python index with -Len(s) <= k < Len(s)
PyAt(s, k) == IF k < 0 THEN s[k + Len(s) + 1] ELSE s[k + 1]

\* f with key k removed
Remove(f, k) == [x \in (DOMAIN f) \ {k} |-> f[x]]

\* the largest member of a non-empty set of numbers
MaxOf(S) == CHOOSE m \in S : \A x \in S : x <= m

(***************************************************************************)
(* branch.py: Branch and the registry scans.                               *)
(***************************************************************************)
\* a plausible slip: the clone is looked for as a file, which a directory never is
exists_is_file(name) == FALSE

\* Branch.exists
exists(name) == name \in clone

\* a plausible slip: any clone counts as managed
is_managed_any_clone(name) == name \in clone

\* Branch.is_managed
is_managed(name) == name \in override_dirs /\ name \in DOMAIN metadata_file

\* Branch.is_running (container_id is not None)
is_running(name) == name \in running

\* the text write_metadata writes, as lines
MetadataText(id, name) ==
    << <<"ID", "=">> \o str(id), <<"NAME", "=", name>>, <<"CREATED", "=", "now">> >>

\* dict.get(key, default) on the dict Branch.metadata builds: every line holding "="
\* is split at the first "=", a later line replacing an earlier one with the same key
MetadataGet(lines, key, default) ==
    LET keyed == {i \in 1..Len(lines) :
                     /\ Contains(lines[i], "=")
                     /\ SubSeq(lines[i], 1, IndexOf(lines[i], "=") - 1) = key}
    IN  IF keyed = {} THEN default
        ELSE LET l == lines[MaxOf(keyed)]
             IN  SubSeq(l, IndexOf(l, "=") + 1, Len(l))

\* Branch.instance_id, the metadata files being mf: int(self.metadata.get("ID", 0))
instance_id(mf, name) ==
    int(MetadataGet(IF name \in DOMAIN mf THEN mf[name] ELSE <<>>, <<"ID">>, <<"0">>))

\* a plausible slip: instances spaced 10 ports apart
port_base_spaced10(mf, name) == 10011 + instance_id(mf, name) * 10

\* Branch.port_base
port_base(mf, name) == 10011 + instance_id(mf, name) * 100

\* Branch.bwd_port_base
bwd_port_base(mf, name) == 11001 + instance_id(mf, name) * 100

\* get_managed_branches over directories dirs and metadata files mf
ManagedIn(dirs, mf) == {n \in dirs : n \in DOMAIN mf}

\* get_managed_branches
get_managed_branches == ManagedIn(override_dirs, metadata_file)

\* the ids find_next_instance_id reads from one metadata file: each line that starts
\* with "ID=" gives int(line.split("=")[1]), a line int() rejects is skipped
LineIds(lines) ==
    {int(Split(lines[i], "=")[2]) :
        i \in {j \in 1..Len(lines) :
                  /\ Len(lines[j]) >= 2
                  /\ lines[j][1] = "ID"
                  /\ lines[j][2] = "="
                  /\ IsInt(Split(lines[j], "=")[2])}}

\* a plausible slip: the number of records plus one
find_next_instance_id_count ==
    Cardinality(ManagedIn(override_dirs, metadata_file)) + 1

\* a plausible slip: the smallest id no record holds
find_next_instance_id_firstfree ==
    LET used == UNION {LineIds(metadata_file[n]) : n \in ManagedIn(override_dirs, metadata_file)}
    IN  CHOOSE k \in 1..(Cardinality(used) + 1) :
            k \notin used /\ \A j \in 1..(k - 1) : j \in used

\* find_next_instance_id
find_next_instance_id ==
    LET found == UNION {LineIds(metadata_file[n]) :
                           n \in ManagedIn(override_dirs, metadata_file)}
    IN  MaxOf({0} \cup found) + 1

\* find_source_repo is not None; dark_source says DARK_SOURCE is a repository
\* other than DARK_ROOT
find_source_repo(dark_source) ==
    \/ dark_source
    \/ "main" \in clone
    \/ \E b \in get_managed_branches : exists(b)

(***************************************************************************)
(* devcontainer.py: the host ports of an instance.                         *)
(***************************************************************************)
\* host_ports of generate_override_config(branch): the 20 test ports, then the
\* two BwdServer ports
host_ports(mf, name) ==
    [i \in 1..20 |-> port_base(mf, name) + (i - 1)]
        \o <<bwd_port_base(mf, name), bwd_port_base(mf, name) + 1>>

(***************************************************************************)
(* proxy.py: the cache refresh and the proxy process.                      *)
(***************************************************************************)
\* a plausible slip: the refresh leaves the cache as it is
RefreshIn_keep(dirs, mf, run) == branch_ports

\* a plausible slip: the refresh keeps every managed branch, running or not
RefreshIn_all(dirs, mf, run) ==
    [k \in {<<n>> : n \in ManagedIn(dirs, mf)} |-> bwd_port_base(mf, k[1])]

\* the cache refresh_branch_ports builds from directories dirs, files mf and the
\* running containers run; a key is the branch name as a string
RefreshIn(dirs, mf, run) ==
    [k \in {<<n>> : n \in {m \in ManagedIn(dirs, mf) : m \in run}} |->
        bwd_port_base(mf, k[1])]

\* is_proxy_running() is not None
is_proxy_running == pid_file # 0 /\ pid_file \in proxy_procs

\* ensure_proxy_running, run at the end of a command whose registry and container
\* writes are the primed variables: nothing when the pid file names a live process;
\* else os.fork(), the parent writes the child's pid, the child refreshes its cache
\* and binds the port, which fails while another server holds it
ensure_proxy_running ==
    IF is_proxy_running
    THEN UNCHANGED <<pid_file, proxy_procs, branch_ports>>
    ELSE \E pid \in (1..MaxPid) \ proxy_procs :
            /\ pid_file' = pid
            /\ IF proxy_procs = {}
               THEN /\ proxy_procs' = {pid}
                    /\ branch_ports' = RefreshIn(override_dirs', metadata_file', running')
               ELSE UNCHANGED <<proxy_procs, branch_ports>>


(***************************************************************************)
(* commands.py: the management commands.  One command runs at a time; its  *)
(* record cmd holds the command, its argument, the step it is at ("done"   *)
(* once it returned), its exit code and the message it printed.            *)
(***************************************************************************)
Cmd(op, name, pc, rc, msg) ==
    [op |-> op, name |-> name, pc |-> pc, rc |-> rc, msg |-> msg, pid |-> 0]

\* Branch.write_metadata(instance_id)
write_metadata(name, id) ==
    /\ override_dirs' = override_dirs \cup {name}
    /\ metadata_file' = (name :> MetadataText(id, name)) @@ metadata_file

\* generate_override_config(branch), called once the metadata of the step is written
\* (the override directory then exists): writes forwardPorts = host_ports when the
\* clone holds a devcontainer.json that parses (devjson), and nothing otherwise
generate_override_config(name, devjson) ==
    override_config' = IF devjson
                       THEN (name :> host_ports(metadata_file', name)) @@ override_config
                       ELSE override_config

\* `devcontainer up` and the container lookup that follows it, shared by cmd_new and
\* cmd_start: up_rc says the CLI returned 0, container that `docker ps` then lists
\* the container; on success the command ends with ensure_proxy_running
devcontainer_up(op, name) ==
    \E up_rc \in BOOLEAN, container \in BOOLEAN :
        /\ running' = IF container THEN running \cup {name} ELSE running
        /\ IF ~up_rc
           THEN /\ cmd' = Cmd(op, name, "done", 1, "Failed to start devcontainer")
                /\ UNCHANGED <<pid_file, proxy_procs, branch_ports>>
           ELSE IF ~container
           THEN /\ cmd' = Cmd(op, name, "done", 1, "Container started but couldn't find it")
                /\ UNCHANGED <<pid_file, proxy_procs, branch_ports>>
           ELSE /\ cmd' = Cmd(op, name, "done", 0, "ready")
                /\ ensure_proxy_running

\* cmd_new
cmd_new(name) ==
    /\ cmd.pc = "done"
    /\ UNCHANGED <<req, backlog, docker, invocations, invocations>>
    /\ \/ /\ exists(name)
          /\ cmd' = Cmd("new", name, "done", 1, "already exists")
          /\ UNCHANGED <<clone, override_dirs, metadata_file, override_config, running,
                         pid_file, proxy_procs, branch_ports>>
       \/ /\ ~exists(name)
          /\ \E dark_source \in BOOLEAN :
                /\ ~find_source_repo(dark_source)
                /\ cmd' = Cmd("new", name, "done", 1, "No source repo found")
          /\ UNCHANGED <<clone, override_dirs, metadata_file, override_config, running,
                         pid_file, proxy_procs, branch_ports>>
       \/ /\ ~exists(name)
          /\ \E dark_source \in BOOLEAN : find_source_repo(dark_source)
          /\ find_next_instance_id <= MaxId
          /\ \/ \* git clone fails
                /\ cmd' = Cmd("new", name, "done", 1, "Clone failed")
                /\ UNCHANGED <<clone, override_dirs, metadata_file, override_config,
                               running, pid_file, proxy_procs, branch_ports>>
             \/ \* git clone succeeds
                /\ clone' = clone \cup {name}
                /\ write_metadata(name, find_next_instance_id)
                /\ \E devjson \in BOOLEAN : generate_override_config(name, devjson)
                /\ \/ \* shutil.which("devcontainer") finds nothing
                      /\ cmd' = Cmd("new", name, "done", 1, "devcontainer CLI not found")
                      /\ UNCHANGED <<running, pid_file, proxy_procs, branch_ports>>
                   \/ devcontainer_up("new", name)

\* cmd_new run from several terminals at once, in the steps between which another
\* invocation can run: up to find_next_instance_id (the checks fail without a
\* write), git clone and the checkout, write_metadata with generate_override_config,
\* and the start of the container.  invocations[name] holds the step the invocation
\* for name is at and the instance_id it computed.
cmd_new_begin(name) ==
    /\ name \notin DOMAIN invocations
    /\ ~exists(name)
    /\ \E dark_source \in BOOLEAN : find_source_repo(dark_source)
    /\ find_next_instance_id <= MaxId
    /\ invocations' = (name :> [pc |-> "clone", id |-> find_next_instance_id])
                         @@ invocations
    /\ UNCHANGED <<clone, override_dirs, metadata_file, override_config, running, cmd,
                   pid_file, proxy_procs, branch_ports, req, backlog, docker>>

\* git clone: when it fails the command returns 1
cmd_new_clone(name) ==
    /\ name \in DOMAIN invocations
    /\ invocations[name].pc = "clone"
    /\ \/ /\ invocations' = Remove(invocations, name)
          /\ cmd' = Cmd("new", name, "done", 1, "Clone failed")
          /\ UNCHANGED clone
       \/ /\ clone' = clone \cup {name}
          /\ invocations' = [invocations EXCEPT ![name].pc = "write"]
          /\ UNCHANGED cmd
    /\ UNCHANGED <<override_dirs, metadata_file, override_config, running,
                   pid_file, proxy_procs, branch_ports, req, backlog, docker>>

\* branch.write_metadata(instance_id) with the id computed in the first step, and
\* generate_override_config
cmd_new_write(name) ==
    /\ name \in DOMAIN invocations
    /\ invocations[name].pc = "write"
    /\ write_metadata(name, invocations[name].id)
    /\ \E devjson \in BOOLEAN : generate_override_config(name, devjson)
    /\ invocations' = [invocations EXCEPT ![name].pc = "up"]
    /\ UNCHANGED <<clone, running, cmd, pid_file, proxy_procs, branch_ports, req,
                   backlog, docker>>

\* the start of the container and the return of the command
cmd_new_up(name) ==
    /\ name \in DOMAIN invocations
    /\ invocations[name].pc = "up"
    /\ invocations' = Remove(invocations, name)
    /\ \/ /\ cmd' = Cmd("new", name, "done", 1, "devcontainer CLI not found")
          /\ UNCHANGED <<running, pid_file, proxy_procs, branch_ports>>
       \/ devcontainer_up("new", name)
    /\ UNCHANGED <<clone, override_dirs, metadata_file, override_config, req, backlog,
                   docker>>

\* cmd_start
cmd_start(name) ==
    /\ cmd.pc = "done"
    /\ UNCHANGED <<req, backlog, docker, invocations, clone, override_dirs, metadata_file>>
    /\ \/ /\ ~exists(name)
          /\ cmd' = Cmd("start", name, "done", 1, "not found")
          /\ UNCHANGED <<override_config, running, pid_file, proxy_procs, branch_ports>>
       \/ /\ exists(name) /\ ~is_managed(name)
          /\ cmd' = Cmd("start", name, "done", 1, "not a managed branch")
          /\ UNCHANGED <<override_config, running, pid_file, proxy_procs, branch_ports>>
       \/ /\ exists(name) /\ is_managed(name) /\ is_running(name)
          /\ cmd' = Cmd("start", name, "done", 0, "already running")
          /\ UNCHANGED <<override_config, running, pid_file, proxy_procs, branch_ports>>
       \/ /\ exists(name) /\ is_managed(name) /\ ~is_running(name)
          /\ \/ \* shutil.which("devcontainer") finds nothing
                /\ cmd' = Cmd("start", name, "done", 1, "devcontainer CLI not found")
                /\ UNCHANGED <<override_config, running, pid_file, proxy_procs, branch_ports>>
             \/ /\ IF name \in DOMAIN override_config
                   THEN UNCHANGED override_config
                   ELSE \E devjson \in BOOLEAN : generate_override_config(name, devjson)
                /\ devcontainer_up("start", name)

\* a plausible slip: stopping also removes the override directory, as cmd_rm does
cmd_stop_drops_record(name) ==
    /\ cmd.pc = "done"
    /\ UNCHANGED <<req, backlog, docker, invocations, clone, pid_file, proxy_procs, branch_ports>>
    /\ \/ /\ name \notin clone
          /\ cmd' = Cmd("stop", name, "done", 1, "not found")
          /\ UNCHANGED <<running, override_dirs, metadata_file, override_config>>
       \/ /\ name \in clone
          /\ running' = running \ {name}
          /\ override_dirs' = override_dirs \ {name}
          /\ metadata_file' = Remove(metadata_file, name)
          /\ override_config' = Remove(override_config, name)
          /\ cmd' = Cmd("stop", name, "done", 0, "stopped")

\* cmd_stop
cmd_stop(name) ==
    /\ cmd.pc = "done"
    /\ UNCHANGED <<req, backlog, docker, invocations, clone, override_dirs, metadata_file,
                   override_config,
                   pid_file, proxy_procs, branch_ports>>
    /\ \/ /\ ~exists(name)
          /\ cmd' = Cmd("stop", name, "done", 1, "not found")
          /\ UNCHANGED running
       \/ /\ exists(name)
          \* container_id, then docker stop and docker rm when it is not None
          /\ running' = running \ {name}
          /\ cmd' = Cmd("stop", name, "done", 0, "stopped")

\* a plausible slip: the override directory is removed before the container is stopped
rm_order_config_first == <<"override", "container", "clone">>

\* the cleanup steps of cmd_rm in the order the code runs them: stop and remove the
\* container (and any left under its label), remove the override directory, remove
\* the clone
rm_order == <<"container", "override", "clone">>

\* cmd_rm up to its first cleanup step: the checks, the confirmation (proceed is
\* --force or the answer "y") and Tmux.kill_window
cmd_rm(name) ==
    /\ cmd.pc = "done"
    /\ UNCHANGED <<req, backlog, docker, invocations, clone, override_dirs, metadata_file,
                   override_config, running,
                   pid_file, proxy_procs, branch_ports>>
    /\ \/ /\ ~exists(name)
          /\ cmd' = Cmd("rm", name, "done", 1, "not found")
       \/ /\ exists(name) /\ ~is_managed(name)
          /\ cmd' = Cmd("rm", name, "done", 1, "not a managed branch")
       \/ /\ exists(name) /\ is_managed(name)
          /\ \/ cmd' = Cmd("rm", name, "done", 1, "Aborted")
             \/ cmd' = Cmd("rm", name, rm_order[1], 0, "")

\* one cleanup step of the cmd_rm in progress; after the last one it returns 0
cmd_rm_step ==
    /\ cmd.op = "rm" /\ cmd.pc # "done"
    /\ UNCHANGED <<req, backlog, docker, invocations, pid_file, proxy_procs, branch_ports>>
    /\ LET i == IndexOf(rm_order, cmd.pc)
       IN  cmd' = IF i < Len(rm_order)
                  THEN Cmd("rm", cmd.name, rm_order[i + 1], 0, "")
                  ELSE Cmd("rm", cmd.name, "done", 0, "removed")
    /\ \/ /\ cmd.pc = "container"
          /\ running' = running \ {cmd.name}
          /\ UNCHANGED <<clone, override_dirs, metadata_file, override_config>>
       \/ /\ cmd.pc = "override"
          \* shutil.rmtree(override_dir) when it exists
          /\ override_dirs' = override_dirs \ {cmd.name}
          /\ metadata_file' = Remove(metadata_file, cmd.name)
          /\ override_config' = Remove(override_config, cmd.name)
          /\ UNCHANGED <<clone, running>>
       \/ /\ cmd.pc = "clone"
          /\ clone' = clone \ {cmd.name}
          /\ UNCHANGED <<override_dirs, metadata_file, override_config, running>>

(***************************************************************************)
(* proxy.py: DarkProxyHandler.  The server is a socketserver.TCPServer: it *)
(* accepts a connection, runs the handler to its end and only then accepts *)
(* the next one, so req is the one request in the handler and backlog the  *)
(* connections not accepted yet.  The handler is two steps: up to the call *)
(* of urlopen, and the return of urlopen with the relay of its result.     *)
(***************************************************************************)
\* an empty dict
EmptyMap == [x \in {} |-> 0]

\* the routing domain labels and the leaf and port the clients send
Atoms == {"dark-packages", "main", "dlio", "localhost", "DLIO"}
PortSuffixes == {<<>>, <<":", "9", "0", "0", "0">>}

\* the Host header a client sends for the labels and the port suffix it chose
HostHeader(labels, suffix) == Join([i \in 1..Len(labels) |-> <<labels[i]>>], ".") \o suffix

\* the methods DarkProxyHandler defines a do_<method> for
do_methods == {"GET", "POST", "PUT", "DELETE", "HEAD"}

\* the methods clients send
Methods == do_methods \cup {"PATCH", "OPTIONS"}

\* the Content-Length header of a request: absent, a decimal number, or not a number
ContentLengths == {"absent", "number", "garbage"}

\* `docker ps` run by subprocess.run without a timeout: it lists the containers
\* ("up"), exits non-zero with nothing on stdout ("error"), cannot be executed and
\* subprocess.run raises FileNotFoundError ("missing"), or never returns ("hung")
DockerStates == {"up", "error", "missing", "hung"}

\* what the backend does with a forwarded request
Backend(kind, status) == [kind |-> kind, status |-> status]
NoBackend == Backend("none", 0)

\* the response headers a backend sends, as (key, value) pairs
BackendHeaders ==
    {<<"Content-Type", "application/json">>, <<"X-Dark", "1">>,
     <<"Transfer-Encoding", "chunked">>}

\* the headers _send_error sends
ErrorHeaders == {<<"Content-Type", "text/plain">>}

\* key.lower()
key_lower(key) ==
    CASE key = "Content-Type" -> "content-type"
      [] key = "Transfer-Encoding" -> "transfer-encoding"
      [] key = "X-Dark" -> "x-dark"
      [] key \in {"Host", "host"} -> "host"
      [] key = "Content-Length" -> "content-length"
      [] key \in {"X-Trace", "x-trace"} -> "x-trace"
      [] key = "Cookie" -> "cookie"
      [] OTHER -> key

\* key.capitalize(), the key urllib.request.Request.add_header files a header under
capitalize(key) ==
    CASE key_lower(key) = "host" -> "Host"
      [] key_lower(key) = "content-length" -> "Content-length"
      [] key_lower(key) = "x-trace" -> "X-trace"
      [] key_lower(key) = "cookie" -> "Cookie"
      [] OTHER -> key

\* Request.add_header(key, value) on the dict d of the headers of the outbound
\* request: one value per capitalized key, the last one added
add_header(d, key, value) ==
    [k \in DOMAIN d \cup {capitalize(key)} |-> IF k = capitalize(key) THEN value ELSE d[k]]

\* the header lines a client sends after Host and Content-Length
HeaderLines ==
    {<<>>,
     << <<"Cookie", "a=1">>, <<"X-Trace", "1">> >>,
     << <<"X-Trace", "1">>, <<"X-Trace", "2">> >>,
     << <<"host", "other.example">>, <<"Cookie", "a=1">> >>}

NoReq ==
    [phase |-> "none", labels |-> <<>>, suffix |-> <<>>, host |-> <<>>, status |-> 0,
     refreshes |-> 0, port |-> 0, branch_name |-> <<>>, canvas_host |-> <<>>,
     listed |-> {}, method |-> "", content_length |-> "absent", sent |-> <<>>,
     backend |-> NoBackend, headers |-> {}, body |-> "",
     path |-> "", inbound |-> <<>>, data |-> ""]

\* a request with the given method and Content-Length whose Host header is
\* HostHeader(labels, suffix), read and not yet handled
Request(labels, suffix, method, content_length) ==
    [NoReq EXCEPT !.phase = "pending", !.labels = labels, !.suffix = suffix,
                  !.host = HostHeader(labels, suffix), !.method = method,
                  !.content_length = content_length,
                  !.path = "/ping?x=1",
                  !.data = IF content_length = "number" THEN "data" ELSE ""]

\* the request r sent with the header lines after its Host and Content-Length
WithHeaders(r, lines) == [r EXCEPT !.inbound = lines]

\* self.headers.items(): every header line of the request, in order
headers_items(r) ==
    << <<"Host", r.host>> >>
       \o (IF r.content_length = "absent" THEN <<>>
           ELSE << <<"Content-Length", r.content_length>> >>)
       \o r.inbound

\* the headers of the outbound request after the lines of items were copied: each
\* line but Host and Content-Length goes through add_header
RECURSIVE copy_headers(_)
copy_headers(items) ==
    IF items = <<>> THEN EmptyMap
    ELSE LET d == copy_headers(SubSeq(items, 1, Len(items) - 1))
             h == items[Len(items)]
         IN  IF key_lower(h[1]) \notin {"host", "content-length"}
             THEN add_header(d, h[1], h[2])
             ELSE d

\* the outbound request _proxy_request builds for the request r, the cached port and
\* the rewritten host: the url, the body read when Content-Length is positive, the
\* method, the copied headers and the Host header
outbound(r, port, rewritten) ==
    [port |-> port, path |-> r.path, method |-> r.method, host |-> rewritten,
     body |-> IF r.content_length = "number" THEN r.data ELSE "",
     headers |-> add_header(copy_headers(headers_items(r)), "Host", rewritten)]

\* a GET request without a body
Pending(labels, suffix) == Request(labels, suffix, "GET", "absent")

\* a plausible slip: the part after the colon is kept, not the part before it
strip_port_last(host) ==
    IF Contains(host, ":") THEN Split(host, ":")[Len(Split(host, ":"))] ELSE host

\* host.split(":")[0] when ":" is in host
strip_port(host) == IF Contains(host, ":") THEN Split(host, ":")[1] ELSE host

\* a plausible slip: one label too few is let through
host_ok_three(parts) ==
    Len(parts) >= 3 /\ SliceFrom(parts, -2) = << <<"dlio">>, <<"localhost">> >>

\* len(parts) >= 4 and parts[-2:] == ["dlio", "localhost"]
host_ok(parts) ==
    Len(parts) >= 4 /\ SliceFrom(parts, -2) = << <<"dlio">>, <<"localhost">> >>

\* parts.index("dlio"), 0-based
dlio_idx(parts) == IndexOf(parts, <<"dlio">>) - 1

\* parts[dlio_idx - 1]
branch_name(parts) == PyAt(parts, dlio_idx(parts) - 1)

\* ".".join(parts[:dlio_idx - 1] + parts[dlio_idx:])
canvas_host(parts) ==
    Join(SliceTo(parts, dlio_idx(parts) - 1) \o SliceFrom(parts, dlio_idx(parts)), ".")

\* _send_error(code, message)
_send_error(r, code, message) ==
    [r EXCEPT !.phase = "answered", !.status = code, !.headers = ErrorHeaders,
              !.body = message]

\* what urlopen to localhost:port can meet.  Nothing accepts the connection
\* ("refused") or the connect gets no answer in 30 seconds ("connect_timeout"), in
\* any case; when a running instance has published the port, also: the backend
\* accepts and sends nothing for 30 seconds ("response_timeout"), it answers with a
\* status ("response"), or it answers 200 and closes before the body is complete
\* ("truncated")
BackendAnswers(port) ==
    {Backend("refused", 0), Backend("connect_timeout", 0)} \cup
    IF \E n \in running : is_managed(n) /\ bwd_port_base(metadata_file, n) = port
    THEN {Backend("response_timeout", 0), Backend("truncated", 200)}
            \cup {Backend("response", st) : st \in {200, 404, 500}}
    ELSE {}

\* the with-block around urlopen and the except clauses, for the behaviour b of the
\* backend: a 2xx response is relayed with its headers except Transfer-Encoding;
\* urlopen raises HTTPError for a 4xx or 5xx response, relayed with its code, the
\* header Content-Type: text/plain and its body; a refused or timed out connect is a
\* URLError, 502; a timeout of the response is a TimeoutError raised by getresponse,
\* which is no URLError, 500; a failure of resp.read() comes after the status line
\* and the headers went out, and _send_error then writes into the body
relay(r, b) ==
    LET relayed == {h \in BackendHeaders : key_lower(h[1]) \notin {"transfer-encoding"}}
    IN  CASE b.kind \in {"refused", "connect_timeout"} ->
                _send_error(r, 502, "Backend error")
          [] b.kind = "response_timeout" ->
                _send_error(r, 500, "Proxy error")
          [] b.kind = "response" /\ b.status \in 200..299 ->
                [r EXCEPT !.phase = "answered", !.status = b.status,
                          !.headers = relayed, !.body = "payload"]
          [] b.kind = "response" /\ b.status \notin 200..299 ->
                [r EXCEPT !.phase = "answered", !.status = b.status,
                          !.headers = ErrorHeaders, !.body = "payload"]
          [] b.kind = "truncated" ->
                [r EXCEPT !.phase = "answered", !.status = b.status,
                          !.headers = relayed, !.body = "Proxy error"]

\* a client connects to the proxy port and sends a request; the kernel queues the
\* connection until the server accepts it
connect(labels, suffix, method, content_length) ==
    /\ proxy_procs # {}
    /\ Len(backlog) < MaxBacklog
    /\ backlog' = Append(backlog, Request(labels, suffix, method, content_length))
    /\ UNCHANGED <<clone, override_dirs, metadata_file, override_config, running, cmd,
                   pid_file, proxy_procs, branch_ports, req, docker, invocations>>

\* a plausible slip: the server prunes the records of the instances that do not run
\* when it accepts a connection
serve_forever_prunes ==
    /\ proxy_procs # {}
    /\ req.phase \in {"none", "answered", "dropped"}
    /\ backlog # <<>>
    /\ req' = Head(backlog)
    /\ backlog' = Tail(backlog)
    /\ override_dirs' = override_dirs \cap running
    /\ metadata_file' = [n \in DOMAIN metadata_file \cap running |-> metadata_file[n]]
    /\ UNCHANGED <<clone, override_config, running, cmd, pid_file, proxy_procs,
                   branch_ports, docker, invocations>>

\* httpd.serve_forever(): once the handler of the previous connection has returned
\* (or raised), the server accepts the next connection and reads its request
serve_forever ==
    /\ proxy_procs # {}
    /\ req.phase \in {"none", "answered", "dropped"}
    /\ backlog # <<>>
    /\ req' = Head(backlog)
    /\ backlog' = Tail(backlog)
    /\ UNCHANGED <<clone, override_dirs, metadata_file, override_config, running, cmd,
                   pid_file, proxy_procs, branch_ports, docker, invocations>>

\* BaseHTTPRequestHandler.handle_one_request for a method the handler has no
\* do_<method> for: send_error(501)
handle_one_request ==
    /\ proxy_procs # {}
    /\ req.phase = "pending"
    /\ req.method \notin do_methods
    /\ req' = [req EXCEPT !.phase = "answered", !.status = 501,
                          !.headers = {<<"Content-Type", "text/html">>},
                          !.body = "Unsupported method"]
    /\ UNCHANGED <<clone, override_dirs, metadata_file, override_config, running, cmd,
                   pid_file, proxy_procs, branch_ports, backlog, docker, invocations, invocations>>

\* `docker ps` as Branch.container_id reads it: the names whose container it prints
docker_ps == IF docker = "up" THEN running ELSE {}

\* DarkProxyHandler._proxy_request up to the call of urlopen.  refresh_branch_ports
\* runs outside the try block: when `docker ps` cannot be executed the exception
\* leaves the handler and the server closes the connection without a response
\* ("dropped"), and when `docker ps` never returns the handler never does ("blocked");
\* either way the cache was emptied first.  int() of the Content-Length header runs
\* inside the try block.
_proxy_request ==
    /\ proxy_procs # {}
    /\ req.phase = "pending"
    /\ req.method \in do_methods
    /\ UNCHANGED <<clone, override_dirs, metadata_file, override_config, running, cmd,
                   pid_file, proxy_procs, backlog, docker, invocations, invocations>>
    /\ LET parts == Split(strip_port(req.host), ".")
       IN  IF ~host_ok(parts)
           THEN /\ req' = _send_error(req, 400, "Invalid hostname format")
                /\ UNCHANGED branch_ports
           ELSE LET miss == branch_name(parts) \notin DOMAIN branch_ports
                    \* the refresh runs `docker ps` for every managed branch
                    asks == miss /\ ManagedIn(override_dirs, metadata_file) # {}
                    cache == IF miss
                             THEN RefreshIn(override_dirs, metadata_file, docker_ps)
                             ELSE branch_ports
                    seen == [req EXCEPT !.branch_name = branch_name(parts),
                                        !.canvas_host = canvas_host(parts),
                                        !.refreshes = IF miss THEN 1 ELSE 0]
                IN  IF asks /\ docker = "missing"
                    THEN /\ branch_ports' = EmptyMap
                         /\ req' = [seen EXCEPT !.phase = "dropped"]
                    ELSE IF asks /\ docker = "hung"
                    THEN /\ branch_ports' = EmptyMap
                         /\ req' = [seen EXCEPT !.phase = "blocked"]
                    ELSE /\ branch_ports' = cache
                         /\ IF branch_name(parts) \notin DOMAIN cache
                            THEN req' = [_send_error(seen, 404, "not running")
                                            EXCEPT !.listed = DOMAIN cache]
                            ELSE IF req.content_length = "garbage"
                            THEN req' = [_send_error(seen, 500, "Proxy error")
                                            EXCEPT !.port = cache[branch_name(parts)]]
                            ELSE req' = [seen EXCEPT
                                           !.phase = "forwarding",
                                           !.port = cache[branch_name(parts)],
                                           !.sent = <<outbound(req,
                                                               cache[branch_name(parts)],
                                                               canvas_host(parts))>>]

\* DarkProxyHandler._proxy_request from the return of urlopen: the backend has done
\* one of the things BackendAnswers allows and the handler relays it
_proxy_request_forward ==
    /\ proxy_procs # {}
    /\ req.phase = "forwarding"
    /\ \E b \in BackendAnswers(req.port) : req' = relay([req EXCEPT !.backend = b], b)
    /\ UNCHANGED <<clone, override_dirs, metadata_file, override_config, running, cmd,
                   pid_file, proxy_procs, branch_ports, backlog, docker, invocations, invocations>>

(***************************************************************************)
(* commands.py, proxy.py: `multi proxy start|stop|status|fg` and the proxy *)
(* process.  A pid is live when it is the pid of a proxy server process.   *)
(* The connections of a server process end with it.                        *)
(***************************************************************************)
\* a command that has returned and printed a pid
CmdPid(op, name, rc, msg, pid) == [Cmd(op, name, "done", rc, msg) EXCEPT !.pid = pid]

\* a plausible slip: is_proxy_running leaves a stale pid file in place
is_proxy_running_keeps_file == pid_file

\* the content of the pid file after is_proxy_running(): as it was when it names a
\* live process, unlinked when it names none or when there was none
is_proxy_running_unlink ==
    IF is_proxy_running THEN pid_file ELSE 0

\* start_proxy_server from the refresh on, in the process pid (the forked child, or
\* the command itself with background=False): the server binds the port and serves
\* with a fresh cache; while another server holds the port the bind raises and the
\* process ends
start_proxy_server(pid) ==
    IF proxy_procs = {}
    THEN /\ proxy_procs' = {pid}
         /\ branch_ports' = RefreshIn(override_dirs, metadata_file, docker_ps)
         /\ req' = NoReq
         /\ backlog' = <<>>
    ELSE UNCHANGED <<proxy_procs, branch_ports, req, backlog>>

\* cmd_proxy, action "start": the parent of the fork writes the pid of the child
cmd_proxy_start ==
    /\ cmd.pc = "done"
    /\ UNCHANGED <<clone, override_dirs, metadata_file, override_config, running,
                   docker, invocations>>
    /\ IF is_proxy_running
       THEN /\ cmd' = CmdPid("proxy", "start", 0, "Proxy already running", pid_file)
            /\ UNCHANGED <<pid_file, proxy_procs, branch_ports, req, backlog>>
       ELSE \E pid \in (1..MaxPid) \ proxy_procs :
               /\ cmd' = CmdPid("proxy", "start", 0, "Proxy started", pid)
               /\ pid_file' = pid
               /\ start_proxy_server(pid)

\* a plausible slip: the pid file is unlinked only after a successful kill
cmd_proxy_stop_keeps_file ==
    /\ cmd.pc = "done"
    /\ UNCHANGED <<clone, override_dirs, metadata_file, override_config, running,
                   docker, invocations,
                   branch_ports>>
    /\ IF is_proxy_running
       THEN /\ proxy_procs' = proxy_procs \ {pid_file}
            /\ pid_file' = 0
            /\ req' = NoReq
            /\ backlog' = <<>>
            /\ cmd' = CmdPid("proxy", "stop", 0, "Proxy stopped", pid_file)
       ELSE /\ cmd' = CmdPid("proxy", "stop", 0, "Proxy not running", 0)
            /\ UNCHANGED <<pid_file, proxy_procs, req, backlog>>

\* cmd_proxy, action "stop": stop_proxy_server sends SIGTERM to the pid of the pid
\* file and unlinks the file, also when the pid names no process
cmd_proxy_stop ==
    /\ cmd.pc = "done"
    /\ UNCHANGED <<clone, override_dirs, metadata_file, override_config, running,
                   docker, invocations,
                   branch_ports>>
    /\ pid_file' = 0
    /\ IF is_proxy_running
       THEN /\ proxy_procs' = proxy_procs \ {pid_file}
            /\ req' = NoReq
            /\ backlog' = <<>>
            /\ cmd' = CmdPid("proxy", "stop", 0, "Proxy stopped", pid_file)
       ELSE /\ cmd' = CmdPid("proxy", "stop", 0, "Proxy not running", 0)
            /\ UNCHANGED <<proxy_procs, req, backlog>>

\* cmd_proxy, action "status"
cmd_proxy_status ==
    /\ cmd.pc = "done"
    /\ UNCHANGED <<clone, override_dirs, metadata_file, override_config, running,
                   docker, invocations,
                   proxy_procs, branch_ports, req, backlog>>
    /\ pid_file' = is_proxy_running_unlink
    /\ cmd' = IF is_proxy_running
              THEN CmdPid("proxy", "status", 0, "Proxy running", pid_file)
              ELSE CmdPid("proxy", "status", 0, "Proxy not running", 0)

\* cmd_proxy, action "fg": start_proxy_server(background=False) writes no pid file
\* and returns only when the server ends
cmd_proxy_fg ==
    /\ cmd.pc = "done"
    /\ UNCHANGED <<clone, override_dirs, metadata_file, override_config, running,
                   docker, invocations>>
    /\ pid_file' = is_proxy_running_unlink
    /\ IF is_proxy_running
       THEN /\ cmd' = CmdPid("proxy", "fg", 1, "Proxy already running in background",
                             pid_file)
            /\ UNCHANGED <<proxy_procs, branch_ports, req, backlog>>
       ELSE \E pid \in (1..MaxPid) \ proxy_procs :
               /\ start_proxy_server(pid)
               /\ cmd' = IF proxy_procs = {}
                         THEN CmdPid("proxy", "fg", 0, "serving", pid)
                         ELSE CmdPid("proxy", "fg", 1, "Address already in use", 0)

\* a proxy server process is killed from outside (kill, Ctrl-C of `proxy fg`)
proxy_killed ==
    /\ \E pid \in proxy_procs : proxy_procs' = proxy_procs \ {pid}
    /\ req' = NoReq
    /\ backlog' = <<>>
    /\ UNCHANGED <<clone, override_dirs, metadata_file, override_config, running,
                   docker, invocations,
                   cmd, pid_file, branch_ports>>

(***************************************************************************)
(* Spec: the management commands, one at a time, from an empty registry,   *)
(* with the proxy already started by `multi proxy start`.  DARK_ROOT/main  *)
(* may be a checkout made by hand (find_source_repo looks for it), which   *)
(* no record manages.                                                      *)
(***************************************************************************)
Init ==
    /\ clone \in {{}, {"main"}}
    /\ override_dirs = {}
    /\ metadata_file = EmptyMap
    /\ override_config = EmptyMap
    /\ running = {}
    /\ cmd = Cmd("none", "", "done", 0, "")
    /\ pid_file = 1
    /\ proxy_procs = {1}
    /\ branch_ports = EmptyMap
    /\ req = NoReq
    /\ backlog = <<>>
    /\ docker = "up"
    /\ invocations = [n \in {} |-> 0]

Next ==
    \/ \E name \in Names : cmd_new(name)
    \/ \E name \in Names : cmd_start(name)
    \/ \E name \in Names : cmd_stop(name)
    \/ \E name \in Names : cmd_rm(name)
    \/ cmd_rm_step

Spec == Init /\ [][Next]_vars

(***************************************************************************)
(* SpecRoute: the proxy answering one request, for every Host header of up *)
(* to MaxLabels labels, after `multi new main` gave main the id 1.         *)
(***************************************************************************)
\* the sequences of 0..MaxLabels labels
LabelSeqs == UNION {[1..k -> Atoms] : k \in 0..MaxLabels}

InitRoute ==
    /\ clone = {"main"}
    /\ override_dirs = {"main"}
    /\ metadata_file = ("main" :> MetadataText(1, "main"))
    /\ override_config = ("main" :> host_ports(metadata_file, "main"))
    /\ running = {"main"}
    /\ cmd = Cmd("new", "main", "done", 0, "ready")
    /\ pid_file = 1
    /\ proxy_procs = {1}
    /\ branch_ports \in {EmptyMap, RefreshIn(override_dirs, metadata_file, running)}
    /\ \E labels \in LabelSeqs, suffix \in PortSuffixes : req = Pending(labels, suffix)
    /\ backlog = <<>>
    /\ docker = "up"
    /\ invocations = [n \in {} |-> 0]

NextRoute == _proxy_request \/ _proxy_request_forward

SpecRoute == InitRoute /\ [][NextRoute]_vars

(***************************************************************************)
(* SpecPorts: two registered, stopped instances whose ids are any two      *)
(* distinct ids up to MaxPortId (ids drift apart as instances are removed  *)
(* and created) and whose override configs are not written yet; cmd_start  *)
(* writes them.                                                            *)
(***************************************************************************)
InitPorts ==
    /\ clone = {"main", "dev"}
    /\ override_dirs = {"main", "dev"}
    /\ \E n1 \in 1..MaxPortId, n2 \in 1..MaxPortId :
          /\ n1 # n2
          /\ metadata_file = ("main" :> MetadataText(n1, "main"))
                                 @@ ("dev" :> MetadataText(n2, "dev"))
    /\ override_config = EmptyMap
    /\ running = {}
    /\ cmd = Cmd("none", "", "done", 0, "")
    /\ pid_file = 1
    /\ proxy_procs = {1}
    /\ branch_ports = EmptyMap
    /\ req = NoReq
    /\ backlog = <<>>
    /\ docker = "up"
    /\ invocations = [n \in {} |-> 0]

NextPorts == \E name \in {"main", "dev"} : cmd_start(name)

SpecPorts == InitPorts /\ [][NextPorts]_vars

(***************************************************************************)
(* SpecServe: the proxy serving requests for main and dev while the        *)
(* management commands start, stop and remove them.  main (id 1)           *)
(* and dev (id 2) are registered and stopped, and the proxy was started    *)
(* with nothing running.                                                   *)
(***************************************************************************)
\* the instances of SpecServe
ServeNames == {"main", "dev"}

\* the hosts the clients of SpecServe ask for
ServeHosts == {<<"dark-packages", n, "dlio", "localhost">> : n \in ServeNames}

InitServe ==
    /\ clone = ServeNames
    /\ override_dirs = ServeNames
    /\ metadata_file = ("main" :> MetadataText(1, "main")) @@ ("dev" :> MetadataText(2, "dev"))
    /\ override_config = ("main" :> host_ports(metadata_file, "main"))
                            @@ ("dev" :> host_ports(metadata_file, "dev"))
    /\ running = {}
    /\ cmd = Cmd("none", "", "done", 0, "")
    /\ pid_file = 1
    /\ proxy_procs = {1}
    /\ branch_ports = EmptyMap
    /\ req = NoReq
    /\ backlog = <<>>
    /\ docker = "up"
    /\ invocations = [n \in {} |-> 0]

NextServe ==
    \/ \E labels \in ServeHosts : connect(labels, <<>>, "GET", "absent")
    \/ serve_forever
    \/ _proxy_request
    \/ _proxy_request_forward
    \/ \E name \in ServeNames : cmd_start(name)
    \/ \E name \in ServeNames : cmd_stop(name)
    \/ \E name \in ServeNames : cmd_rm(name)
    \/ cmd_rm_step

SpecServe == InitServe /\ [][NextServe]_vars

(***************************************************************************)
(* SpecHandle: the proxy handling one request of any method, with any      *)
(* Content-Length header, behind any state of the container runtime, and   *)
(* then a second one that was waiting.  main (id 1) and dev (id 2) are     *)
(* registered, any of them run, and the cache is what a refresh built at   *)
(* some earlier moment, when any of them ran.                              *)
(***************************************************************************)
InitHandle ==
    /\ clone = ServeNames
    /\ override_dirs = ServeNames
    /\ metadata_file = ("main" :> MetadataText(1, "main")) @@ ("dev" :> MetadataText(2, "dev"))
    /\ override_config = ("main" :> host_ports(metadata_file, "main"))
                            @@ ("dev" :> host_ports(metadata_file, "dev"))
    /\ running \in SUBSET ServeNames
    /\ cmd = Cmd("none", "", "done", 0, "")
    /\ pid_file = 1
    /\ proxy_procs = {1}
    /\ \E then \in SUBSET ServeNames :
          branch_ports = RefreshIn(override_dirs, metadata_file, then)
    /\ \E labels \in ServeHosts, method \in Methods, content_length \in ContentLengths,
          lines \in HeaderLines :
          req = WithHeaders(Request(labels, <<>>, method, content_length), lines)
    /\ backlog = <<Pending(<<"dark-packages", "main", "dlio", "localhost">>, <<>>)>>
    /\ docker \in DockerStates
    /\ invocations = [n \in {} |-> 0]

NextHandle ==
    \/ handle_one_request
    \/ _proxy_request
    \/ _proxy_request_forward
    \/ serve_forever

SpecHandle == InitHandle /\ [][NextHandle]_vars

(***************************************************************************)
(* SpecProxy: the proxy commands, the proxy process and its requests, with *)
(* `multi start`, `multi stop` and `multi rm` of main.  main (id 1) and    *)
(* dev (id 2) are registered and stopped, and no proxy was started yet.    *)
(***************************************************************************)
InitProxy ==
    /\ clone = ServeNames
    /\ override_dirs = ServeNames
    /\ metadata_file = ("main" :> MetadataText(1, "main")) @@ ("dev" :> MetadataText(2, "dev"))
    /\ override_config = ("main" :> host_ports(metadata_file, "main"))
                            @@ ("dev" :> host_ports(metadata_file, "dev"))
    /\ running = {}
    /\ cmd = Cmd("none", "", "done", 0, "")
    /\ pid_file = 0
    /\ proxy_procs = {}
    /\ branch_ports = EmptyMap
    /\ req = NoReq
    /\ backlog = <<>>
    /\ docker = "up"
    /\ invocations = [n \in {} |-> 0]

NextProxy ==
    \/ cmd_proxy_start
    \/ cmd_proxy_stop
    \/ cmd_proxy_status
    \/ cmd_proxy_fg
    \/ proxy_killed
    \/ cmd_start("main")
    \/ cmd_stop("main")
    \/ cmd_rm("main")
    \/ cmd_rm_step
    \/ connect(<<"dark-packages", "main", "dlio", "localhost">>, <<>>, "GET", "absent")
    \/ serve_forever
    \/ _proxy_request
    \/ _proxy_request_forward

SpecProxy == InitProxy /\ [][NextProxy]_vars

(***************************************************************************)
(* SpecRace: `multi new` run from several terminals at once, from an empty *)
(* registry; no lock serializes the invocations.                           *)
(***************************************************************************)
NextRace ==
    \/ \E name \in Names : cmd_new_begin(name)
    \/ \E name \in Names : cmd_new_clone(name)
    \/ \E name \in Names : cmd_new_write(name)
    \/ \E name \in Names : cmd_new_up(name)

SpecRace == Init /\ [][NextRace]_vars

(***************************************************************************)
(* SpecReuse: the proxy serving requests for dev while instances are       *)
(* removed and created.  main (id 1) and dev (id 2) are registered and     *)
(* stopped, and the cache is the empty one of a proxy that has just        *)
(* started.                                                                *)
(***************************************************************************)
\* the instances the commands of SpecReuse act on
ReuseNames == {"dev", "fix"}

\* the host the clients of SpecReuse ask for
ReuseHost == <<"dark-packages", "dev", "dlio", "localhost">>

NextReuse ==
    \/ connect(ReuseHost, <<>>, "GET", "absent")
    \/ serve_forever
    \/ _proxy_request
    \/ _proxy_request_forward
    \/ cmd_new("fix")
    \/ \E name \in ReuseNames : cmd_start(name)
    \/ \E name \in ReuseNames : cmd_stop(name)
    \/ cmd_rm("dev")
    \/ cmd_rm_step

SpecReuse == InitServe /\ [][NextReuse]_vars

(***************************************************************************)
(* The registry claims, checked under Spec.                                *)
(***************************************************************************)
\* the names that have a persisted record
Registered == get_managed_branches

\* the stored instance_id of a registered name
StoredId(n) == instance_id(metadata_file, n)

\* C1: in every state the commands reach from an empty registry, any two distinct
\* registered names have different stored instance_id values.
C1_IdsDistinct ==
    \A a \in Registered, b \in Registered : a # b => StoredId(a) # StoredId(b)

\* C1 witness: two instances are registered and one of them holds the id 3, which it
\* got after an earlier instance was removed.
C1_Witness ==
    /\ Cardinality(Registered) = 2
    /\ \E a \in Registered : StoredId(a) = 3

\* C3: find_next_instance_id is 1 with no record and otherwise 1 + the largest
\* stored id, so it fills no gap and is never the id of a persisted record.
C3_NextIdIsMaxPlusOne ==
    /\ find_next_instance_id =
          IF Registered = {} THEN 1 ELSE 1 + MaxOf({StoredId(n) : n \in Registered})
    /\ \A n \in Registered : StoredId(n) # find_next_instance_id

\* C3 witness: the records hold the ids {1, 3} (2 was removed) and the next id is 4.
C3_Witness ==
    /\ {StoredId(n) : n \in Registered} = {1, 3}
    /\ find_next_instance_id = 4

\* C4: no step changes the stored instance_id of a registered name, and a record
\* disappears only in the step of cmd_rm of that name that removes its override
\* directory; whether the container runs plays no part.
C4_IdImmutable ==
    [][\A n \in Names :
          n \in Registered =>
             /\ n \in Registered' => instance_id(metadata_file', n) = StoredId(n)
             /\ n \notin Registered' =>
                   cmd.op = "rm" /\ cmd.name = n /\ cmd.pc = "override"]_vars

\* C4 witness: cmd_stop has stopped an instance created second, and its record
\* still holds the id 2.
C4_Witness ==
    /\ cmd.op = "stop" /\ cmd.rc = 0
    /\ cmd.name \in Registered
    /\ cmd.name \notin running
    /\ StoredId(cmd.name) = 2

\* C5: cmd_new of a name that has a persisted record returns 1, writes no record and
\* leaves every record, and the id the next cmd_new would get, as they were.
C5_NewOnRegisteredFails ==
    [][\A n \in Names :
          (n \in Registered /\ cmd.pc = "done" /\ cmd'.op = "new" /\ cmd'.name = n) =>
             /\ cmd'.rc = 1
             /\ cmd'.pc = "done"
             /\ metadata_file' = metadata_file
             /\ override_dirs' = override_dirs
             /\ find_next_instance_id' = find_next_instance_id]_vars

\* C5 witness: cmd_new of a registered name has just failed with "already exists".
C5_Witness ==
    /\ cmd.op = "new" /\ cmd.rc = 1 /\ cmd.msg = "already exists"
    /\ cmd.name \in Registered

\* a cmd_rm invocation of name n that has no persisted record
RmOfUnregistered(n) ==
    /\ n \notin DOMAIN metadata_file
    /\ cmd.pc = "done"
    /\ cmd'.op = "rm" /\ cmd'.name = n

\* what a no-op leaves alone: the registry, the clones and the containers
NothingTouched ==
    UNCHANGED <<clone, override_dirs, metadata_file, override_config, running>>

TestRange(n) == {override_config[n][i] : i \in 1..20}
BwdRange(n) == {override_config[n][21], override_config[n][22]}

\* C2: the ports published for an instance with id n are the test range
\* [10011+100n, 10011+100n+19] and the backend range [11001+100n, 11001+100n+1], and
\* for two instances with different ids the four ranges are pairwise disjoint, the
\* test range of one against the backend range of the other included.
C2_PortRangesDisjoint ==
    \A a \in DOMAIN override_config, b \in DOMAIN override_config :
        /\ TestRange(a) = (10011 + 100 * StoredId(a))..(10011 + 100 * StoredId(a) + 19)
        /\ BwdRange(a) = (11001 + 100 * StoredId(a))..(11001 + 100 * StoredId(a) + 1)
        /\ TestRange(a) \cap BwdRange(a) = {}
        /\ a # b =>
              /\ StoredId(a) # StoredId(b)
              /\ TestRange(a) \cap TestRange(b) = {}
              /\ TestRange(a) \cap BwdRange(b) = {}
              /\ BwdRange(a) \cap BwdRange(b) = {}

\* C2 witness: both override configs are written and the two ids are 10 apart, where
\* the test range of the higher id starts 10 ports above the backend range of the
\* lower one.
C2_Witness ==
    /\ DOMAIN override_config = {"main", "dev"}
    /\ StoredId("main") = StoredId("dev") + 10
    /\ 11011 + 100 * StoredId("dev") \in TestRange("main")

(***************************************************************************)
(* The routing claims, checked under SpecRoute.  req.labels and req.suffix *)
(* are what the client built the Host header from.                         *)
(***************************************************************************)
\* fewer than 4 labels, or the last two labels are not dlio.localhost
Malformed(labels) ==
    \/ Len(labels) < 4
    \/ labels[Len(labels) - 1] # "dlio"
    \/ labels[Len(labels)] # "localhost"

\* str.lower on a label
Lower(a) == IF a = "DLIO" THEN "dlio" ELSE a

\* labels with the label at position k left out
Without(labels, k) == SubSeq(labels, 1, k - 1) \o SubSeq(labels, k + 1, Len(labels))

\* C8: a request whose Host header, without its port, is malformed is answered 400,
\* and handling it refreshes no cache, leaves the cache as it was and forwards
\* nothing.
C8_MalformedIs400 ==
    [][(req.phase = "pending" /\ Malformed(req.labels)) =>
          /\ req'.phase = "answered"
          /\ req'.status = 400
          /\ req'.refreshes = 0
          /\ req'.port = 0
          /\ branch_ports' = branch_ports]_vars

\* C8 witness: main.dlio.localhost (3 labels) was answered 400 while main runs and
\* the cache is empty, so that a refresh would have been seen.
C8_Witness ==
    /\ req.phase = "answered"
    /\ req.labels = <<"main", "dlio", "localhost">>
    /\ req.status = 400
    /\ "main" \in running
    /\ branch_ports = EmptyMap

\* C9 as stated: a host of at least 4 labels whose last two labels are dlio.localhost
\* up to letter case is not answered 400.
C9_SuffixCaseInsensitive ==
    (/\ req.phase = "answered"
     /\ Len(req.labels) >= 4
     /\ Lower(req.labels[Len(req.labels) - 1]) = "dlio"
     /\ Lower(req.labels[Len(req.labels)]) = "localhost")
        => req.status # 400

\* C10 as stated: for an accepted host the instance name is the third label from the
\* end and the rewritten host is the labels without that one, joined by ".".
C10_ThirdFromLast ==
    (req.phase = "answered" /\ ~Malformed(req.labels)) =>
        /\ req.branch_name = <<req.labels[Len(req.labels) - 2]>>
        /\ req.canvas_host = HostHeader(Without(req.labels, Len(req.labels) - 2), <<>>)

\* what resolving a Host header value gives: a rejection, or the instance name and
\* the rewritten host
Outcome(host) ==
    LET parts == Split(strip_port(host), ".")
    IN  IF host_ok(parts)
        THEN <<"route", branch_name(parts), canvas_host(parts)>>
        ELSE <<"400">>

\* what the handler made of the request it has parsed
Handled(r) ==
    IF r.status = 400 THEN <<"400">> ELSE <<"route", r.branch_name, r.canvas_host>>

\* C11: resolving the Host value h:p gives the same outcome (the same instance name
\* and rewritten host, or the same rejection) as resolving h, and that is the
\* outcome the handler acts on.
C11_PortIsStripped ==
    req.phase # "none" =>
        /\ Outcome(HostHeader(req.labels, req.suffix)) = Outcome(HostHeader(req.labels, <<>>))
        /\ req.phase # "pending" => Handled(req) = Outcome(HostHeader(req.labels, <<>>))

\* C11 witness: dark-packages.main.dlio.localhost:9000 was resolved to main and
\* dark-packages.dlio.localhost and forwarded.
C11_Witness ==
    /\ req.phase = "answered"
    /\ req.host = HostHeader(<<"dark-packages", "main", "dlio", "localhost">>,
                             <<":", "9", "0", "0", "0">>)
    /\ req.branch_name = <<"main">>
    /\ req.canvas_host = HostHeader(<<"dark-packages", "dlio", "localhost">>, <<>>)
    /\ Len(req.sent) = 1

(***************************************************************************)
(* The cache and serving claims, checked under SpecServe.                  *)
(***************************************************************************)
\* the instance a well-formed Host header names: its third label from the end
Named(labels) == labels[Len(labels) - 2]

\* C12 as stated: whatever the cache holds, the handler answers a request whose
\* hostname names an instance that has no running backend with 404 (and forwards it
\* nowhere).
C12_NotRunningIs404 ==
    [][(/\ req.phase = "pending" /\ req'.phase # "pending"
        /\ req.method \in do_methods
        /\ ~Malformed(req.labels)
        /\ Named(req.labels) \notin running) =>
          req'.phase = "answered" /\ req'.status = 404]_vars

\* C13: the names listed in the body of a 404 of the proxy are the keys of the cache
\* as the refresh of that request rebuilt it: the registered instances running at that
\* refresh, each mapped to 11001 + 100 * its id, and never the queried name.
C13_ListedAreLive ==
    [][(req.phase = "pending" /\ req'.phase = "answered" /\ req'.status = 404) =>
          /\ req'.refreshes = 1
          /\ req'.listed = DOMAIN branch_ports'
          /\ branch_ports' = [k \in {<<n>> : n \in Registered \cap running} |->
                                 11001 + 100 * StoredId(k[1])]
          /\ req'.branch_name \notin req'.listed]_vars

\* C13 witness: a request for main, removed, was answered 404 with dev, running, in
\* the list.
C13_Witness ==
    /\ req.phase = "answered" /\ req.status = 404 /\ req.body = "not running"
    /\ req.refreshes = 1
    /\ req.branch_name = <<"main">>
    /\ "main" \notin Registered
    /\ req.listed = {<<"dev">>}
    /\ branch_ports = (<<"dev">> :> 11201)

\* C14 as stated: a 502 is sent only after a refresh and a second attempt, never on
\* the first connection failure of the request.
C14_RetriesBefore502 ==
    (req.phase = "answered" /\ req.status = 502) => Len(req.sent) = 2

\* C19 as stated: while the handler is blocked in urlopen, a connection that is
\* waiting can be accepted and handled.
C19_AcceptsWhileForwarding ==
    (req.phase = "forwarding" /\ backlog # <<>>) => ENABLED serve_forever

(***************************************************************************)
(* The forwarding and fault claims, checked under SpecHandle.              *)
(***************************************************************************)
\* the handler is through with the request: it answered, raised or hangs
Through(r) == r.phase \in {"answered", "dropped", "blocked"}

\* a fault was raised while the request was handled: inside the cache refresh, by
\* int() of the Content-Length header, or while the response was relayed
Faulted(r) ==
    \/ r.phase = "dropped"
    \/ r.phase = "answered" /\ r.content_length = "garbage" /\ r.port # 0
    \/ r.phase = "answered" /\ r.backend.kind = "truncated"

\* C15 as stated: when the backend of a live, cached instance refuses the connection
\* or does not answer within the timeout, at connect or while the response is
\* awaited, the answer is 502.
C15_UnreachableIs502 ==
    (/\ req.phase = "answered"
     /\ req.backend.kind \in {"refused", "connect_timeout", "response_timeout"})
        => req.status = 502

\* C16 as stated: a fault raised while a request is handled is answered with status
\* 500, and the server goes on to accept the connection that is waiting.
C16_FaultIs500 ==
    Faulted(req) =>
        /\ req.phase = "answered" /\ req.status = 500
        /\ proxy_procs # {}
        /\ backlog # <<>> => ENABLED serve_forever

\* C17 as stated: when `docker ps` fails or does not answer during a refresh, the
\* instances count as not running (the lookup finds no address, 404) and the handler
\* neither raises nor hangs.
C17_RuntimeDownIsNotRunning ==
    (Through(req) /\ req.refreshes = 1 /\ docker # "up") =>
        /\ req.phase = "answered" /\ req.status = 404
        /\ branch_ports = EmptyMap

\* C18 as stated: a request of any method whose hostname resolves to a live instance
\* is forwarded to that instance's backend with the same method.
C18_AnyMethodForwarded ==
    (/\ Through(req)
     /\ docker = "up"
    /\ invocations = [n \in {} |-> 0]
     /\ req.content_length # "garbage"
     /\ Named(req.labels) \in running
     /\ <<Named(req.labels)>> \in DOMAIN branch_ports)
        => /\ Len(req.sent) = 1
           /\ req.sent[1].method = req.method
           /\ req.sent[1].port = bwd_port_base(metadata_file, Named(req.labels))

\* C20 as stated: whatever status the backend answers with, the client gets that
\* status, every header of the backend except Transfer-Encoding, and its body.
C20_ResponseRelayed ==
    (req.phase = "answered" /\ req.backend.kind = "response") =>
        /\ req.status = req.backend.status
        /\ {h \in BackendHeaders : h[1] # "Transfer-Encoding"} \subseteq req.headers
        /\ <<"Transfer-Encoding", "chunked">> \notin req.headers
        /\ req.body = "payload"

\* the header lines of the request that are to be carried over
Carried(r) ==
    {r.inbound[i] : i \in {j \in 1..Len(r.inbound) : key_lower(r.inbound[j][1]) # "host"}}

\* C21 as stated: the forwarded request goes to the port resolved for the instance
\* with the path and query, the method and the body of the inbound one, carries every
\* inbound header line except Host and Content-Length, and has the rewritten host as
\* its one Host header.
C21_RequestForwarded ==
    Len(req.sent) = 1 =>
        LET out == req.sent[1]
        IN  /\ out.port = branch_ports[req.branch_name]
            /\ out.path = req.path
            /\ out.method = req.method
            /\ out.body = req.data
            /\ \A h \in Carried(req) :
                  \E k \in DOMAIN out.headers :
                      key_lower(k) = key_lower(h[1]) /\ out.headers[k] = h[2]
            /\ \A k \in DOMAIN out.headers :
                  key_lower(k) = "host" => out.headers[k] = req.canvas_host
            /\ \A k \in DOMAIN out.headers : key_lower(k) # "content-length"

\* C26: a 404 of the proxy is sent only after the handler, having parsed the
\* hostname, refreshed the cache in that same step; and a request for a registered,
\* running instance that the cache does not hold yet is found by that refresh and
\* forwarded to its backend port, not answered 404.
C26_RefreshBefore404 ==
    [][(req.phase = "pending" /\ req'.phase # "pending" /\ req.method \in do_methods) =>
          /\ (req'.phase = "answered" /\ req'.status = 404) =>
                /\ req'.refreshes = 1
                /\ req'.branch_name # <<>>
                /\ branch_ports' = RefreshIn(override_dirs, metadata_file, docker_ps)
          /\ (/\ ~Malformed(req.labels)
              /\ Named(req.labels) \in Registered \cap running
              /\ <<Named(req.labels)>> \notin DOMAIN branch_ports) =>
                /\ req'.phase = "forwarding"
                /\ req'.refreshes = 1
                /\ req'.port = bwd_port_base(metadata_file, Named(req.labels))]_vars

\* C26 witness: dev was started after the cache was filled with main alone, and the
\* request for dev was found by the refresh and is being forwarded to 11201.
C26_Witness ==
    /\ req.phase = "forwarding"
    /\ req.branch_name = <<"dev">>
    /\ req.refreshes = 1
    /\ req.port = 11201
    /\ DOMAIN branch_ports = {<<"main">>, <<"dev">>}

\* C27 as stated: a step changes the cache only to the mapping of a completed
\* refresh; a refresh that does not complete leaves the mapping that was there.
C27_RefreshIsAtomic ==
    [][/\ branch_ports' \in
             {branch_ports, RefreshIn(override_dirs', metadata_file', docker_ps')}
       /\ req'.phase \in {"dropped", "blocked"} => branch_ports' = branch_ports]_vars

(***************************************************************************)
(* The proxy process claims, checked under SpecProxy.                      *)
(***************************************************************************)
\* the pid file exists and names a live process
NamesLive == pid_file # 0 /\ pid_file \in proxy_procs

C24_OneProxy ==
    [][/\ Cardinality(proxy_procs') <= 1
       /\ ((cmd_proxy_start \/ cmd_start("main")) /\ proxy_procs # {}) =>
             (proxy_procs' = proxy_procs /\ pid_file' = pid_file)]_vars

\* C25 as stated: whenever a proxy server process is running, the pid file exists
\* and holds the pid of that process.
C25_PidFileNamesProxy ==
    proxy_procs # {} => NamesLive

\* C28: the records (the override directories and their metadata files) change only
\* in a step of cmd_new or cmd_rm; the start of the proxy, the handling of a request
\* and the cache refresh leave them, and the ids in them, as they are.
C28_ProxyLeavesRegistry ==
    [][(metadata_file' # metadata_file \/ override_dirs' # override_dirs) =>
          (cmd' # cmd /\ cmd'.op \in {"new", "rm"})]_vars

\* C28 witness: a proxy started by `multi start main` has handled a request with a
\* refresh, `proxy start` ran again, and both records are in place.
C28_Witness ==
    /\ req.phase = "answered" /\ req.refreshes = 1
    /\ cmd.op = "proxy" /\ cmd.name = "start"
    /\ proxy_procs # {}
    /\ Registered = ServeNames
    /\ StoredId("main") = 1 /\ StoredId("dev") = 2

(***************************************************************************)
(* The claim on concurrent `multi new`, checked under SpecRace.            *)
(***************************************************************************)
\* the ports an instance publishes, computed from its record
PortsOf(n) == {host_ports(metadata_file, n)[i] : i \in 1..22}

\* C29 as stated: the records that cmd_new invocations for different names leave,
\* their steps interleaved, hold different instance_ids, and the port ranges derived
\* from them are disjoint.
C29_InterleavedNewDistinct ==
    \A a \in Registered, b \in Registered :
        a # b => (StoredId(a) # StoredId(b) /\ PortsOf(a) \cap PortsOf(b) = {})

(***************************************************************************)
(* The claim on forwarding after removals, checked under SpecReuse.        *)
(***************************************************************************)
\* C30 as stated: whenever the handler forwards a request whose host names X, X is
\* registered at that moment, the target port is the bwd_port_base of X, and no
\* other registered instance has that port as its bwd_port_base.
C30_ForwardsToCurrentInstance ==
    [][(req.phase = "pending" /\ req'.phase = "forwarding") =>
          /\ Named(req.labels) \in Registered
          /\ req'.port = bwd_port_base(metadata_file, Named(req.labels))
          /\ \A n \in Registered \ {Named(req.labels)} :
                 bwd_port_base(metadata_file, n) # req'.port]_vars

====
